---- MODULE Spec2Model ----
(***************************************************************************)
(* Model of tongue_detection_simple.py: the head-tilt event pipeline.      *)
(*                                                                         *)
(*   producer thread  : the camera loop; one observation per processed     *)
(*                      face (lines 155-183): classify, cooldown gate,     *)
(*                      run_coroutine_threadsafe(position_queue.put(..)).  *)
(*   server thread    : start_websocket_server / websocket_server creates  *)
(*                      the loop, the queue and the broadcast worker.      *)
(*   event loop tasks : broadcast_worker, broadcast_head_tilt, and one     *)
(*                      register_client handler per connection.            *)
(*                                                                         *)
(* Times are integer milliseconds (time.time() is in seconds; 0.3 s is     *)
(* 300).  The event loop runs one task at a time, so an action of a task   *)
(* covers at most the code from one await to the next.  pushed_log,        *)
(* pulled_log, failed_log, received, obs_count and the id and time carried *)
(* by each queued item are history variables used only to state            *)
(* properties.                                                             *)
(*                                                                         *)
(* Specifications: Spec is the whole pipeline; BridgeSpec is the same      *)
(* pipeline with more observations and fewer subscribers; DebounceSpec is  *)
(* the producer thread and the server start-up with every spacing of the   *)
(* clock readings; FairSpec and FairBridgeSpec add the scheduling of the   *)
(* event loop.                                                             *)
(***************************************************************************)
EXTENDS Integers, Sequences, FiniteSets, TLC

\* ---------------------------------------------------------------- bounds
\* observations made by the producer in Spec, BridgeSpec, DebounceSpec,
\* ClassifySpec and WorkerSpec
MaxObs == 1
MaxBridgeObs == 3
MaxDebounceObs == 4
MaxClassifyObs == 1
MaxWorkerObs == 2
\* connections the server accepts in Spec, BridgeSpec and WorkerSpec
NumClients == 2
BridgeClients == 1
WorkerClients == 1

Clients == 1..NumClients

\* ------------------------------------------------------------- constants
\* line 126: broadcast_cooldown = 0.3 (seconds)
broadcast_cooldown == 300

\* lines 86, 88, 90, 94: the three values detect_head_tilt returns
Positions == {"left", "center", "right"}

\* line 124: last_position = None
None == "None"

\* time.time() is wall-clock time since the epoch and the loop starts after
\* time.sleep(1) (line 99): the first reading is already past the cooldown.
StartTimes == {broadcast_cooldown + 1}

\* time elapsed between two successive readings of time.time() at line 171
Deltas == {1, broadcast_cooldown, broadcast_cooldown + 1}
PipelineDeltas == {broadcast_cooldown + 1}

\* line 83: tilt_threshold = 0.05, as the fraction ThresholdNum / ThresholdDen
ThresholdNum == 5
ThresholdDen == 100

\* Landmark coordinates and frame sizes in scaled integer units.  A
\* measurement is the four eye coordinates lines 69-79 read and the frame
\* size; ok = FALSE stands for landmarks the indexing at lines 69-75 cannot
\* read (it raises).
Xs == {0, 14, 15, 16}
Ys == {0, 1, 2}
ImageSizes == {[w |-> 40, h |-> 30]}

Missing == [ok |-> FALSE, lx |-> 0, rx |-> 0, ly |-> 0, ry |-> 0,
            w |-> 0, h |-> 0]

Measurements ==
    {[ok |-> TRUE, lx |-> lx, rx |-> rx, ly |-> ly, ry |-> ry,
      w |-> sz.w, h |-> sz.h] :
        lx \in Xs, rx \in Xs, ly \in Ys, ry \in Ys, sz \in ImageSizes}
    \cup {Missing}

\* a face with the outer eye corners 15 units apart and dy units of vertical
\* offset, in a 40 x 30 frame: tilt ratio dy * 30 / (15 * 40) = dy / 20
Face(dy) ==
    [ok |-> TRUE, lx |-> 0, rx |-> 15,
     ly |-> IF dy < 0 THEN 0 - dy ELSE 0, ry |-> IF dy < 0 THEN 0 ELSE dy,
     w |-> 40, h |-> 30]

\* one face per classification: ratio 0.10, 0 and -0.10
PipelineFaces == {Face(2), Face(0), Face(0 - 2)}

VARIABLES
    clock,                \* last value read from time.time()
    face_landmarks,       \* line 146: the measurement of the last observation
    head_tilt,            \* line 155: the last classification (None before any)
    last_position,        \* line 124
    last_broadcast_time,  \* line 125
    websocket_loop,       \* line 16 / 59: FALSE while None
    queue_created,        \* line 15 / 51: FALSE while position_queue is None
    loop_calls,           \* callbacks handed to the loop by run_coroutine_threadsafe
    position_queue,       \* contents of the asyncio.Queue
    connected_clients,    \* line 14
    conn,                 \* per client: "new", "open", "closed"
    handler,              \* per client: register_client position
    worker_pc,            \* broadcast_worker / broadcast_head_tilt position
    position,             \* line 43: the item being broadcast
    snapshot,             \* line 33: connected_clients.copy()
    remaining,            \* members of the copy not yet iterated
    client,               \* line 33: loop variable (0 when none)
    disconnected,         \* line 32
    received,             \* per client: messages whose send completed
    obs_count,            \* number of observations made
    pushed_log,           \* every item handed to run_coroutine_threadsafe
    pulled_log,           \* every item returned by position_queue.get()
    failed_log            \* every client whose send has raised

producer_vars == <<clock, face_landmarks, head_tilt, last_position, last_broadcast_time,
                   obs_count, pushed_log>>
startup_vars  == <<websocket_loop, queue_created>>
registry_vars == <<conn, handler>>
worker_vars   == <<worker_pc, position, snapshot, remaining, client,
                   disconnected, received, pulled_log, failed_log>>

vars == <<clock, face_landmarks, head_tilt, last_position, last_broadcast_time,
          websocket_loop, queue_created, loop_calls, position_queue,
          connected_clients, conn, handler, worker_pc, position,
          snapshot, remaining, client, disconnected, received,
          obs_count, pushed_log, pulled_log, failed_log>>

NoItem == [state |-> None, time |-> 0, id |-> 0]

Init ==
    /\ clock \in StartTimes
    /\ face_landmarks = Missing
    /\ head_tilt = None
    /\ last_position = None
    /\ last_broadcast_time = 0
    /\ websocket_loop = FALSE
    /\ queue_created = FALSE
    /\ loop_calls = <<>>
    /\ position_queue = <<>>
    /\ connected_clients = {}
    /\ conn = [c \in Clients |-> "new"]
    /\ handler = [c \in Clients |-> "none"]
    /\ worker_pc = "none"
    /\ position = NoItem
    /\ snapshot = {}
    /\ remaining = {}
    /\ client = 0
    /\ disconnected = {}
    /\ received = [c \in Clients |-> <<>>]
    /\ obs_count = 0
    /\ pushed_log = <<>>
    /\ pulled_log = <<>>
    /\ failed_log = {}

\* ------------------------------------------------------- producer thread

Abs(x) == IF x < 0 THEN 0 - x ELSE x

\* line 77: eye_distance = abs(left_eye_outer.x - right_eye_outer.x) * image_width
EyeDistance(m) == Abs(m.lx - m.rx) * m.w

\* line 79: eye_vertical_diff = (right_eye_outer.y - left_eye_outer.y) * image_height
EyeVerticalDiff(m) == (m.ry - m.ly) * m.h

\* line 81: tilt_ratio = eye_vertical_diff / eye_distance if eye_distance > 0
\* else 0, as the fraction num / den with den > 0
TiltRatio(m) ==
    IF EyeDistance(m) > 0
    THEN [num |-> EyeVerticalDiff(m), den |-> EyeDistance(m)]
    ELSE [num |-> 0, den |-> 1]

\* line 85: tilt_ratio > tilt_threshold
AboveThresholdOrEqual(r) == r.num * ThresholdDen >= ThresholdNum * r.den
AboveThreshold(r) == r.num * ThresholdDen > ThresholdNum * r.den

\* line 87: tilt_ratio < -tilt_threshold
BelowThreshold(r) == r.num * ThresholdDen < (0 - ThresholdNum) * r.den

\* lines 92-94: any exception is caught and "center" is returned
OnExceptionRaise == "Error"
OnException == "center"

\* lines 63-94
detect_head_tilt(m) ==
    IF ~m.ok THEN OnException
    ELSE IF AboveThreshold(TiltRatio(m)) THEN "right"
    ELSE IF BelowThreshold(TiltRatio(m)) THEN "left"
    ELSE "center"


\* line 172: (current_time - last_broadcast_time) > broadcast_cooldown
CooldownElapsedNoWindow(current_time, last_time) == (current_time - last_time) > 0
CooldownElapsed(current_time, last_time) == (current_time - last_time) > broadcast_cooldown

\* line 179: if websocket_loop and position_queue  (an asyncio.Queue defines
\* neither __len__ nor __bool__, so a created queue is truthy even when empty)
BridgeReady == websocket_loop /\ queue_created

\* line 181: run_coroutine_threadsafe -> loop.call_soon_threadsafe appends the
\* callback to the loop's ready queue
ScheduleFront(calls, item) == <<item>> \o calls
Schedule(calls, item) == Append(calls, item)

\* line 181: the value handed to position_queue.put
PutArgUpper(tilt) ==
    CASE tilt = "left" -> "LEFT"
      [] tilt = "right" -> "RIGHT"
      [] OTHER -> "CENTER"
PutArg(tilt) == tilt

\* lines 155-183: one pass of the classify, debounce and enqueue block for
\* one detected face
Observe(m, d) ==
    /\ LET current_time == clock + d
           tilt == detect_head_tilt(m)
           item == [state |-> PutArg(tilt), time |-> current_time,
                    id |-> Len(pushed_log) + 1]
       IN /\ clock' = current_time
          /\ face_landmarks' = m
          /\ head_tilt' = tilt
          /\ obs_count' = obs_count + 1
          /\ IF CooldownElapsed(current_time, last_broadcast_time)
             THEN /\ last_broadcast_time' = current_time
                  /\ last_position' = IF tilt # last_position THEN tilt
                                      ELSE last_position
                  /\ IF BridgeReady
                     THEN /\ loop_calls' = Schedule(loop_calls, item)
                          /\ pushed_log' = Append(pushed_log, item)
                     ELSE UNCHANGED <<loop_calls, pushed_log>>
             ELSE UNCHANGED <<last_broadcast_time, last_position,
                              loop_calls, pushed_log>>
    /\ UNCHANGED <<startup_vars, position_queue, connected_clients,
                   registry_vars, worker_vars>>

\* --------------------------------------------------------- server thread

\* lines 58-60: start_websocket_server creates and installs the loop
StartLoop ==
    /\ ~websocket_loop
    /\ websocket_loop' = TRUE
    /\ UNCHANGED <<producer_vars, queue_created, loop_calls, position_queue,
                   connected_clients, registry_vars, worker_vars>>

\* lines 49-53: websocket_server creates the queue and the worker task and
\* starts serving
StartServer ==
    /\ websocket_loop /\ ~queue_created
    /\ queue_created' = TRUE
    /\ worker_pc' = "get"
    /\ UNCHANGED <<producer_vars, websocket_loop, loop_calls, position_queue,
                   connected_clients, registry_vars, position,
                   snapshot, remaining, client, disconnected, received,
                   pulled_log, failed_log>>

\* ------------------------------------------------------------ event loop

\* asyncio.Queue.put on an unbounded queue: put_nowait appends
EnqueueFront(q, item) == <<item>> \o q
Enqueue(q, item) == Append(q, item)

\* the loop runs the oldest scheduled callback: position_queue.put(head_tilt)
RunPut ==
    /\ queue_created
    /\ loop_calls # <<>>
    /\ position_queue' = Enqueue(position_queue, Head(loop_calls))
    /\ loop_calls' = Tail(loop_calls)
    /\ UNCHANGED <<producer_vars, startup_vars, connected_clients,
                   registry_vars, worker_vars>>

\* lines 18-19: a connection is accepted and register_client adds it
Connect(c) ==
    /\ queue_created
    /\ conn[c] = "new"
    /\ conn' = [conn EXCEPT ![c] = "open"]
    /\ handler' = [handler EXCEPT ![c] = "waiting"]
    /\ connected_clients' = connected_clients \cup {c}
    /\ UNCHANGED <<producer_vars, startup_vars, loop_calls, position_queue,
                   worker_vars>>

\* the peer closes its connection
PeerClose(c) ==
    /\ conn[c] = "open"
    /\ conn' = [conn EXCEPT ![c] = "closed"]
    /\ UNCHANGED <<producer_vars, startup_vars, loop_calls, position_queue,
                   connected_clients, handler, worker_vars>>

\* line 24: set.remove raises KeyError when the element is absent
RemoveRaises(clients, c) == c \notin clients

\* lines 22-25: wait_closed returns and the finally block removes the client
HandlerClosed(c) ==
    /\ handler[c] = "waiting"
    /\ conn[c] = "closed"
    /\ IF RemoveRaises(connected_clients, c)
       THEN /\ handler' = [handler EXCEPT ![c] = "KeyError"]
            /\ UNCHANGED connected_clients
       ELSE /\ handler' = [handler EXCEPT ![c] = "done"]
            /\ connected_clients' = connected_clients \ {c}
    /\ UNCHANGED <<producer_vars, startup_vars, loop_calls, position_queue,
                   conn, worker_vars>>

\* ------------------------------------------------------ broadcast worker

\* line 43: asyncio.Queue.get returns the oldest item
Dequeue(q) == Head(q)
RestAfter(q) == Tail(q)

\* json.dumps writes a string between double quotes
JsonString(str) == <<"\"", str, "\"">>

\* line 31: json.dumps({"head_tilt": position}), as the sequence of the
\* pieces of text it writes; the default separator after a key is ": "
MessageCompact(pos) ==
    <<"{">> \o JsonString("head_tilt") \o <<":">> \o JsonString(pos) \o <<"}">>
Message(pos) ==
    <<"{">> \o JsonString("head_tilt") \o <<": ">> \o JsonString(pos) \o <<"}">>

\* line 38: connected_clients -= disconnected
RemoveDisconnectedFromCopy(clients, disc) == snapshot \ disc
RemoveDisconnectedNone(clients, disc) == clients
RemoveDisconnected(clients, disc) == clients \ disc

\* lines 33-38: the for statement either takes the next member of the copy
\* (set order is arbitrary) and awaits client.send(message) at line 35, or is
\* exhausted and line 38 runs
ForNext(rem, disc) ==
    \/ /\ rem # {}
       /\ \E c \in rem : client' = c /\ remaining' = rem \ {c}
       /\ worker_pc' = "sending"
       /\ UNCHANGED connected_clients
    \/ /\ rem = {}
       /\ remaining' = {}
       /\ UNCHANGED client
       /\ connected_clients' = RemoveDisconnected(connected_clients, disc)
       /\ worker_pc' = "task_done"

\* lines 43, 30-35: get returns an item; broadcast_head_tilt copies the set
\* and enters the loop, or skips everything when the set is empty (line 30)
WorkerGet ==
    /\ worker_pc = "get"
    /\ position_queue # <<>>
    /\ position' = Dequeue(position_queue)
    /\ position_queue' = RestAfter(position_queue)
    /\ pulled_log' = Append(pulled_log, Dequeue(position_queue))
    /\ disconnected' = {}
    /\ IF connected_clients # {}
       THEN /\ snapshot' = connected_clients
            /\ ForNext(connected_clients, {})
       ELSE /\ snapshot' = {}
            /\ remaining' = {}
            /\ client' = 0
            /\ worker_pc' = "task_done"
            /\ UNCHANGED connected_clients
    /\ UNCHANGED <<producer_vars, startup_vars, loop_calls, registry_vars,
                   received, failed_log>>

\* line 35: the awaited send returns normally
SendOk ==
    /\ worker_pc = "sending"
    /\ conn[client] = "open"
    /\ received' = [received EXCEPT ![client] =
                      Append(@, [id |-> position.id,
                                 message |-> Message(position.state)])]
    /\ ForNext(remaining, disconnected)
    /\ UNCHANGED <<producer_vars, startup_vars, loop_calls, position_queue,
                   registry_vars, position, snapshot, disconnected,
                   pulled_log, failed_log>>

\* lines 36-37: the exception is caught, the client is recorded and the loop
\* goes on with the rest of the copy
AfterFailureAbort(rem) == {}
AfterFailure(rem) == rem

\* lines 35-37: the awaited send raises (closed connection or write error)
SendFail ==
    /\ worker_pc = "sending"
    /\ conn' = [conn EXCEPT ![client] = "closed"]
    /\ disconnected' = disconnected \cup {client}
    /\ failed_log' = failed_log \cup {client}
    /\ ForNext(AfterFailure(remaining), disconnected \cup {client})
    /\ UNCHANGED <<producer_vars, startup_vars, loop_calls, position_queue,
                   handler, position, snapshot, received, pulled_log>>

\* line 42: while True, the worker goes back to waiting after every event
LoopBackReturn == "exit"
LoopBack == "get"

\* line 45: position_queue.task_done(), back to line 43; the locals of the
\* finished broadcast_head_tilt call are gone
TaskDone ==
    /\ worker_pc = "task_done"
    /\ worker_pc' = LoopBack
    /\ position' = NoItem
    /\ snapshot' = {}
    /\ remaining' = {}
    /\ client' = 0
    /\ disconnected' = {}
    /\ UNCHANGED <<producer_vars, startup_vars, loop_calls, position_queue,
                   connected_clients, registry_vars, received, pulled_log,
                   failed_log>>

\* lines 35-37 on a connection that is closed: send raises ConnectionClosed
SendToClosed == worker_pc = "sending" /\ conn[client] = "closed" /\ SendFail

\* the steps of the broadcast_worker task that need nothing from the network
WorkerRun ==
    \/ WorkerGet
    \/ SendToClosed
    \/ TaskDone

\* ------------------------------------------------------- specifications

\* The steps of the event loop and of the broadcast worker
ServerStep ==
    \/ StartLoop
    \/ StartServer
    \/ RunPut
    \/ WorkerGet
    \/ SendOk
    \/ SendFail
    \/ TaskDone

\* The whole pipeline with up to NumClients subscribers and MaxObs
\* observations.  Successive readings of the clock are PipelineDeltas apart,
\* so every observation passes the cooldown gate.
Next ==
    \/ \E m \in PipelineFaces, d \in PipelineDeltas :
          obs_count < MaxObs /\ Observe(m, d)
    \/ \E c \in Clients : Connect(c)
    \/ \E c \in Clients : PeerClose(c)
    \/ \E c \in Clients : HandlerClosed(c)
    \/ ServerStep

Spec == Init /\ [][Next]_vars

\* The whole pipeline with more observations and fewer subscribers.
BridgeNext ==
    \/ \E m \in PipelineFaces, d \in PipelineDeltas :
          obs_count < MaxBridgeObs /\ Observe(m, d)
    \/ \E c \in 1..BridgeClients : Connect(c)
    \/ \E c \in 1..BridgeClients : PeerClose(c)
    \/ \E c \in 1..BridgeClients : HandlerClosed(c)
    \/ ServerStep

BridgeSpec == Init /\ [][BridgeNext]_vars

\* The producer thread and the server start-up alone, with clock readings any
\* of Deltas apart.  No other action writes a variable the producer reads.
DebounceNext ==
    \/ \E m \in PipelineFaces, d \in Deltas :
          obs_count < MaxDebounceObs /\ Observe(m, d)
    \/ StartLoop
    \/ StartServer

DebounceSpec == Init /\ [][DebounceNext]_vars

\* The producer thread alone, over every measurement.
ClassifyNext ==
    \E m \in Measurements, d \in PipelineDeltas :
        obs_count < MaxClassifyObs /\ Observe(m, d)

ClassifySpec == Init /\ [][ClassifyNext]_vars

\* The event loop runs every ready callback and task, and the server thread is
\* started at line 97.  A send on a closed connection raises; nothing in the
\* program obliges a send on an open connection to complete: client.send is
\* awaited without a timeout (line 35).
Scheduling ==
    /\ WF_vars(StartLoop)
    /\ WF_vars(StartServer)
    /\ WF_vars(RunPut)
    /\ WF_vars(WorkerRun)
    /\ \A c \in Clients : WF_vars(HandlerClosed(c))

FairSpec == Spec /\ Scheduling

FairBridgeSpec == BridgeSpec /\ Scheduling

\* Every send ends, by returning or by raising: the runs made of events,
\* connects, closes and send failures only.
SendCompletes == WF_vars(SendOk \/ SendFail)

\* The worker under a stream of equal events: the value of an event plays
\* no part in the worker's control flow.
WorkerNext ==
    \/ \E d \in PipelineDeltas :
          obs_count < MaxWorkerObs /\ Observe(Face(0), d)
    \/ ServerStep
    \/ \E c \in 1..WorkerClients : Connect(c) \/ PeerClose(c) \/ HandlerClosed(c)

WorkerSpec == Init /\ [][WorkerNext]_vars

CompletingSpec == WorkerSpec /\ Scheduling /\ SendCompletes

\* ------------------------------------------------------------ properties

\* the state of the last event handed to the Event Bridge (None before any)
LastEmitted ==
    IF pushed_log = <<>> THEN None ELSE pushed_log[Len(pushed_log)].state

\* the step is one pass of lines 171-183
IsObservation == obs_count' = obs_count + 1

\* the step hands one event to the Event Bridge
IsPush == Len(pushed_log') = Len(pushed_log) + 1

\* C1: the Debouncer is edge-triggered; no event pushed to the Event Bridge
\* carries the state of the event pushed before it, however much later it is
\* observed.
C1_EdgeTriggered ==
    \A i \in 2..Len(pushed_log) :
        pushed_log[i].state # pushed_log[i - 1].state

\* C2: any two consecutive events pushed to the Event Bridge are at least the
\* cooldown apart, whatever the rate of the observations.
C2_OnePerCooldown ==
    \A i \in 2..Len(pushed_log) :
        pushed_log[i].time - pushed_log[i - 1].time >= broadcast_cooldown

\* two events were pushed as close together as the gate allows, out of more
\* observations than events
C2_Witness ==
    /\ Len(pushed_log) >= 2
    /\ obs_count > Len(pushed_log)
    /\ pushed_log[2].time - pushed_log[1].time = broadcast_cooldown + 1

\* the time of the last event handed to the Event Bridge
LastEmissionTime ==
    IF pushed_log = <<>> THEN 0 ELSE pushed_log[Len(pushed_log)].time

\* C3: an event is emitted exactly when the observed state differs from the
\* last emitted state and now - last_emission_time >= cooldown; here the case
\* the claim singles out: with an event already emitted and the bridge in
\* place, an observation of a different state exactly one cooldown after that
\* emission is emitted.
C3_EmitAtCooldown ==
    [][(/\ IsObservation
        /\ BridgeReady
        /\ pushed_log # <<>>
        /\ last_broadcast_time = LastEmissionTime
        /\ last_position = LastEmitted
        /\ head_tilt' # LastEmitted
        /\ clock' - LastEmissionTime = broadcast_cooldown) => IsPush]_vars

\* C4: the very first observation, whatever its state, puts exactly one event
\* with that state on the Event Bridge.
C4_ColdStart ==
    obs_count = 1 =>
        /\ Len(pushed_log) = 1
        /\ pushed_log[1].state = head_tilt

\* C5: the Broadcast Worker pulls the events in exactly the order the producer
\* pushed them: the pulls are a prefix of the pushes.
C5_Fifo ==
    /\ Len(pulled_log) <= Len(pushed_log)
    /\ \A i \in 1..Len(pulled_log) : pulled_log[i] = pushed_log[i]

\* two events with different states were pushed and both have been pulled
C5_Witness ==
    /\ Len(pulled_log) >= 2
    /\ pulled_log[1].state # pulled_log[2].state

\* C6: every event pushed by the producer is eventually pulled by the
\* Broadcast Worker.
C6_EventuallyPulled ==
    \A i \in 1..MaxBridgeObs :
        (Len(pushed_log) >= i) ~> (Len(pulled_log) >= i)

\* the ids of the messages a client has received, in order of receipt
ReceivedIds(c) == [i \in 1..Len(received[c]) |-> received[c][i].id]

\* C7: every subscriber receives the events in emission order, none twice and
\* none merged: its messages are those of a strictly increasing selection of
\* the pushed events, and the event being fanned out is the last one pulled.
C7_SubscriberOrder ==
    /\ \A c \in Clients :
          /\ \A i \in 1..Len(received[c]) :
                /\ received[c][i].id \in 1..Len(pulled_log)
                /\ received[c][i].message =
                      Message(pushed_log[received[c][i].id].state)
          /\ \A i \in 2..Len(received[c]) :
                received[c][i - 1].id < received[c][i].id
    /\ worker_pc \in {"sending", "task_done"} =>
          position = pulled_log[Len(pulled_log)]

\* one subscriber has received two events with different states
C7_Witness ==
    \E c \in Clients :
        /\ Len(received[c]) >= 2
        /\ received[c][1].message # received[c][2].message

\* the client has received the event being broadcast
HasCurrent(c) ==
    \E i \in 1..Len(received[c]) : received[c][i].id = position.id

\* C8: when a broadcast to the subscribers of the copy has completed, every
\* subscriber whose send failed is out of the registry and every other
\* subscriber of the copy has received the message.
C8_FailureIsolation ==
    (worker_pc = "task_done" /\ snapshot # {}) =>
        /\ disconnected \cap connected_clients = {}
        /\ disconnected \subseteq snapshot
        /\ \A c \in snapshot \ disconnected : HasCurrent(c)

\* a broadcast to two subscribers has completed; the send to the one
\* iterated first failed and the one iterated after it received the message
C8_Witness ==
    /\ worker_pc = "task_done"
    /\ Cardinality(snapshot) >= 2
    /\ Cardinality(disconnected) = 1
    /\ client \notin disconnected
    /\ HasCurrent(client)

\* C9: a send that never completes degrades only its own subscriber: every
\* other open subscriber still waiting in the same broadcast eventually
\* receives the event.
C9_StuckSendIsolated ==
    \A c \in Clients : \A d \in Clients \ {c} :
        (worker_pc = "sending" /\ client = c /\ d \in remaining
                               /\ conn[d] = "open")
          ~> (\/ ~(worker_pc = "sending" /\ client = c)
              \/ HasCurrent(d)
              \/ conn[d] # "open")

\* the connection has been accepted (line 19 has run for it)
Accepted(c) == conn[c] # "new"

\* the handler has found the connection closed (wait_closed has returned)
FoundClosed(c) == handler[c] \in {"done", "KeyError"}

\* C10 as stated: a subscriber is in connected_clients if and only if it has
\* been accepted and has not yet been found closed or failed.
C10_MemberIffLive ==
    \A c \in Clients :
        c \in connected_clients <=>
            (Accepted(c) /\ ~FoundClosed(c) /\ c \notin failed_log)

\* the removal step (line 38) of the broadcast in which the send to the
\* client failed has not run yet
RemovalPending(c) == c \in disconnected /\ worker_pc = "sending"

\* C10, amended: a subscriber is in connected_clients if and only if it has
\* been accepted, has not yet been found closed, and no broadcast in which
\* its send failed has reached its removal step.
C10_MemberIffNotRemoved ==
    \A c \in Clients :
        c \in connected_clients <=>
            /\ Accepted(c)
            /\ ~FoundClosed(c)
            /\ c \in failed_log => RemovalPending(c)

\* C10, second half: a subscriber that has been removed never re-enters.
C10_NoReentry ==
    [][\A c \in Clients :
          (Accepted(c) /\ c \notin connected_clients)
              => c \notin connected_clients']_vars

\* C10, amended, both halves
C10_Registry == []C10_MemberIffNotRemoved /\ C10_NoReentry

\* one subscriber has been removed by a broadcast after a failed send, one by
\* its handler after a close
C10_Witness ==
    \E c \in Clients : \E d \in Clients \ {c} :
        /\ c \in failed_log /\ c \notin connected_clients
        /\ handler[c] = "waiting"
        /\ handler[d] = "done" /\ d \notin failed_log
        /\ d \notin connected_clients

\* ------------------------------------------------------------------- C11

\* the number of messages a client has received for the event with this id
ReceivedFor(c, id) ==
    Cardinality({i \in 1..Len(received[c]) : received[c][i].id = id})

\* the one message a client has received for the event being broadcast
CurrentMessage(c) ==
    received[c][CHOOSE i \in 1..Len(received[c]) :
                    received[c][i].id = position.id].message

\* No subscriber ever holds two messages for one event, and when a broadcast
\* has gone through its copy of the set, every subscriber of the copy that
\* is still open has received exactly one message for the event.  A
\* subscriber connected when the event was pushed and open since is in the
\* copy.
ExactlyOneEach ==
    /\ \A c \in Clients : \A id \in 1..Len(pushed_log) : ReceivedFor(c, id) <= 1
    /\ worker_pc = "task_done" =>
          \A c \in snapshot : conn[c] = "open" => ReceivedFor(c, position.id) = 1

\* C11 as stated: each subscriber that stays open receives exactly one
\* message for the event, and for a "left" event the message is the text
\* {"head_tilt":"left"} with nothing between the colon and the value.
C11_CompactLiteral ==
    /\ ExactlyOneEach
    /\ worker_pc = "task_done" /\ position.state = "left" =>
          \A c \in snapshot : conn[c] = "open" =>
              CurrentMessage(c) =
                  <<"{", "\"", "head_tilt", "\"", ":", "\"", "left", "\"", "}">>

\* C11 amended: each subscriber that stays open receives exactly one message
\* for the event, and for a "left" event the message is the text
\* {"head_tilt": "left"}, with the space json.dumps writes after the colon.
C11_Delivery ==
    /\ ExactlyOneEach
    /\ worker_pc = "task_done" /\ position.state = "left" =>
          \A c \in snapshot : conn[c] = "open" =>
              CurrentMessage(c) =
                  <<"{", "\"", "head_tilt", "\"", ": ", "\"", "left", "\"", "}">>

\* a "left" event has been sent to two subscribers that are both still open
C11_Witness ==
    /\ worker_pc = "task_done"
    /\ position.state = "left"
    /\ Cardinality(snapshot) >= 2
    /\ \A c \in snapshot : conn[c] = "open" /\ ReceivedFor(c, position.id) = 1

\* ------------------------------------------------------------------- C12

\* what a JSON reader makes of a text: an object with one key whose value is
\* a string, or nothing (white space after the colon is not significant)
ReadObject(msg) ==
    IF /\ Len(msg) = 9
       /\ msg[1] = "{" /\ msg[9] = "}"
       /\ msg[2] = "\"" /\ msg[4] = "\""
       /\ msg[5] \in {":", ": "}
       /\ msg[6] = "\"" /\ msg[8] = "\""
    THEN {<<msg[3], msg[7]>>}
    ELSE {}

\* the texts handed to send so far: those whose send completed and the one
\* of the broadcast in progress
SentMessages ==
    UNION {{received[c][i].message : i \in 1..Len(received[c])} : c \in Clients}
    \cup (IF worker_pc = "sending" THEN {Message(position.state)} ELSE {})

\* C12: every message sent is an object with exactly one key, head_tilt,
\* whose value is one of "left", "center" and "right".
C12_WireFormat ==
    \A msg \in SentMessages :
        \E v \in {"left", "center", "right"} :
            ReadObject(msg) = {<<"head_tilt", v>>}

\* a subscriber has received a message whose value is "right"
C12_Witness ==
    /\ \E c \in Clients : Len(received[c]) >= 1
    /\ \A c \in Clients : \A i \in 1..Len(received[c]) :
          ReadObject(received[c][i].message) = {<<"head_tilt", "right">>}
    /\ worker_pc = "get"

\* ------------------------------------------------------------------- C13

\* The scenario of C13: four faces with tilt ratios 0.10, 0.10, -0.10 and 0,
\* observed 0, 100, 450 and 460 ms after the first reading of the clock.
ScenarioFaces == <<Face(2), Face(2), Face(0 - 2), Face(0)>>
ScenarioDeltas == <<1, 100, 350, 10>>

\* the clock reading of the first observation of the scenario
ScenarioT0 == (CHOOSE t \in StartTimes : TRUE) + ScenarioDeltas[1]

\* The program running the scenario: the producer makes the four scripted
\* observations while the server thread starts and serves one subscriber.
ScenarioNext ==
    \/ /\ obs_count < Len(ScenarioFaces)
       /\ Observe(ScenarioFaces[obs_count + 1], ScenarioDeltas[obs_count + 1])
    \/ ServerStep
    \/ \E c \in 1..BridgeClients : Connect(c) \/ PeerClose(c) \/ HandlerClosed(c)

ScenarioSpec == Init /\ [][ScenarioNext]_vars

\* C13: the four observations classify as right, right, left, center and
\* the events emitted are exactly right at 0 ms and left at 450 ms.
C13_Scenario ==
    /\ obs_count >= 1 =>
          head_tilt = <<"right", "right", "left", "center">>[obs_count]
    /\ obs_count = Len(ScenarioFaces) =>
          /\ Len(pushed_log) = 2
          /\ pushed_log[1].state = "right" /\ pushed_log[1].time = ScenarioT0
          /\ pushed_log[2].state = "left"
          /\ pushed_log[2].time = ScenarioT0 + 450

\* ------------------------------------------------------------------- C14

\* the face of the last observation has its reference points and a
\* horizontal eye distance above zero, so that its tilt ratio is
\* EyeVerticalDiff / EyeDistance
HasRatio ==
    /\ obs_count >= 1
    /\ face_landmarks.ok
    /\ EyeDistance(face_landmarks) > 0

\* C14: a tilt ratio r above 0.05 classifies as right, one below -0.05 as
\* left, and every other one, the boundaries 0.05 and -0.05 included, as
\* center.  With r = v / h and h > 0, r > 1/20 is 20 v > h.
C14_Classifier ==
    HasRatio =>
        LET v == EyeVerticalDiff(face_landmarks)
            h == EyeDistance(face_landmarks)
        IN /\ 20 * v > h => head_tilt = "right"
           /\ 20 * v < 0 - h => head_tilt = "left"
           /\ (20 * v <= h /\ 20 * v >= 0 - h) => head_tilt = "center"

\* a face whose ratio is exactly 0.05 has been classified
C14_Witness ==
    /\ HasRatio
    /\ 20 * EyeVerticalDiff(face_landmarks) = EyeDistance(face_landmarks)
    /\ head_tilt = "center"

\* ------------------------------------------------------------------- C15

\* C15: a face with horizontal eye distance zero, or whose reference points
\* cannot be read, classifies as center, and no error leaves the classifier.
C15_FailSafe ==
    /\ head_tilt \in Positions \cup {None}
    /\ obs_count >= 1 =>
          /\ ~face_landmarks.ok => head_tilt = "center"
          /\ (face_landmarks.ok /\ face_landmarks.lx = face_landmarks.rx) =>
                head_tilt = "center"

\* a face whose reference points cannot be read has been classified
C15_Witness ==
    /\ obs_count >= 1
    /\ ~face_landmarks.ok
    /\ head_tilt = "center"

\* ------------------------------------------------------------------- C16

IsRemovalStep == worker_pc = "sending" /\ worker_pc' = "task_done"

\* C17: a broadcast iterates over the copy taken at its start, which no
\* connect or close changes; every step of the iteration takes its
\* subscriber from the copy and leaves the rest inside it; the removal step
\* removes exactly the subscribers whose send failed in this broadcast, so
\* that a subscriber whose send succeeded and one added during the broadcast
\* stay as they were.
C17_SnapshotIteration ==
    [][/\ (worker_pc = "sending" /\ worker_pc' = "sending") =>
              /\ snapshot' = snapshot
              /\ client' \in snapshot
              /\ remaining' \subseteq snapshot
              /\ client' \notin remaining'
       /\ IsRemovalStep =>
              /\ disconnected' \subseteq snapshot
              /\ disconnected' \subseteq failed_log'
              /\ connected_clients' = connected_clients \ disconnected'
              /\ \A c \in Clients :
                    (c \notin disconnected') =>
                        (c \in connected_clients' <=> c \in connected_clients)
    ]_vars

\* a broadcast has ended in which a send failed, while a subscriber added
\* during the broadcast is a member
C17_Witness ==
    /\ worker_pc = "task_done"
    /\ disconnected # {}
    /\ \E c \in connected_clients : c \notin snapshot

\* ------------------------------------------------------------------- C18

\* C18: no interleaving of the two removal flows reaches an error state:
\* the close-path removal of a subscriber the broadcast has already removed
\* raises nothing, and neither does the broadcast's removal of a subscriber
\* the close path has already removed.
C18_RemovalSafe ==
    \A c \in Clients : handler[c] # "KeyError"

\* ------------------------------------------------------------------- C19

\* C19: every observation that passes the debounce gate is pushed, whether
\* or not the server thread has created position_queue and websocket_loop
\* yet; the debouncer state never advances for an event that is not
\* enqueued.
C19_GateMeansPush ==
    [][(IsObservation /\ (last_broadcast_time' # last_broadcast_time
                           \/ last_position' # last_position)) => IsPush]_vars

====
